---- MODULE Spec2Model ----
(***************************************************************************)
(* Model of the Firestore path identity primitives:                        *)
(*   model/field_path.cc   (FieldPath parser, escaping, canonical string)  *)
(*   model/document_key.cc (DocumentKey validation, Empty(), ordering)     *)
(*                                                                         *)
(* A C++ string is a sequence of characters; a character is a one-element  *)
(* token (a TLA+ string naming the byte).                                  *)
(***************************************************************************)
EXTENDS Integers, Sequences, FiniteSets, TLC

VARIABLES
    \* ---- FieldPath::ParseServerFormat, one loop iteration per step
    input,      \* the string_view `path` handed to ParseServerFormat
    pos,        \* index of the next character of the range-for loop
    sc,         \* the scanner's locals: segments, segment, inside_backticks, escaped_character
    ppc,        \* "idle" | "scan" | "done" (returned) | "fatal" (an assertion fired)
    result,     \* Pending, or the outcome of the call: a failure or the FieldPath's segments
    \* ---- FieldPath values: CanonicalString, IsKeyFieldPath, re-parsing
    fp,         \* the FieldPath under examination (its segment list)
    madeBy,     \* "none" | "segments" | "KeyFieldPath": the factory that made fp
    fpc,        \* "start" | "built" | "keyed" | "canon" | "parsed"
    canon,      \* CanonicalString() of fp
    esc,        \* per segment, the local `escaped` of EscapedSegment before wrapping
    reparsed,   \* outcome of ParseServerFormat(canon)
    isKey,      \* << >> before fp.IsKeyFieldPath() is called, then <<its result>>
    \* ---- DocumentKey values
    keys,       \* the DocumentKey objects alive in the process
    halted,     \* a FIREBASE_ASSERT_MESSAGE fired: the process is gone
    lastOp,     \* the last DocumentKey operation, its argument and its outcome
    \* ---- the function-local static of DocumentKey::Empty()
    empty,      \* storage of `static DocumentKey empty`: Unconstructed or a DocumentKey
    guard,      \* its initialisation guard: "uninit" | "running" | "done"
    initCount,  \* how many times the constructor of the static has run
    tpc,        \* per thread: "idle" | "enter" | "ctor" | "ret"
    ret,        \* per thread: what the last Empty() call returned
    calls       \* per thread: number of Empty() calls started

vars == <<input, pos, sc, ppc, result, fp, madeBy, fpc, canon, esc, reparsed, isKey,
          keys, halted, lastOp, empty, guard, initCount, tpc, ret, calls>>

parseVars == <<input, pos, sc, ppc, result>>
pathVars  == <<fp, madeBy, fpc, canon, esc, reparsed, isKey>>
keyVars   == <<keys, halted, lastOp>>
emptyVars == <<empty, guard, initCount>>
threadVars == <<tpc, ret, calls>>

(***************************************************************************)
(* Characters                                                              *)
(***************************************************************************)
Dot       == "."
Backtick  == "<BQ>"       \* the backquote character (0x60)
Backslash == "\\"
Underscore == "_"
Nul       == "<NUL>"      \* the byte 0
HiByte    == "<E9>"       \* a byte above 127: negative as a (signed) char

AsciiLetters == {"a", "b", "e", "m", "n"}
AsciiDigits  == {"1"}

\* Bounds
MaxLen    == 5    \* longest text handed to ParseServerFormat
MaxWeight == 5    \* a FieldPath's size: its characters plus its segments

\* The texts ParseServerFormat is run on.
ParseChars == {"a", "b", Dot, Backtick, Backslash, Nul}

SeqsUpTo(S, n) == UNION {[1..k -> S] : k \in 0..n}

(***************************************************************************)
(* std::isalpha / std::isalnum in the default "C" locale.  The argument of *)
(* IsValidIdentifier's first test is a plain char: for a byte above 127    *)
(* it is negative and the call is undefined, so its answer is `ub`, a      *)
(* choice of the build.  The any_of lambda takes unsigned char: defined.   *)
(***************************************************************************)
isalpha(c) == c \in AsciiLetters
isalnum(c) == c \in AsciiLetters \cup AsciiDigits
isalpha_char(c, ub) == IF c = HiByte THEN ub ELSE isalpha(c)

(***************************************************************************)
(* FieldPath::ParseServerFormat                                            *)
(***************************************************************************)
\* what a call has produced: nothing yet, a fatal failure (no FieldPath), or a FieldPath
Pending == [failure |-> "pending", segments |-> <<>>]
Outcome(st) ==
    [failure |-> st.failure,
     segments |-> IF st.failure = "none" THEN st.segments ELSE <<>>]

ScanInit ==
    [segments |-> <<>>, segment |-> <<>>,
     inside_backticks |-> FALSE, escaped_character |-> FALSE,
     failure |-> "none"]

\* the finish_segment lambda: assert the segment is not empty, push it
finish_segment(st) ==
    IF st.segment = <<>>
    THEN [st EXCEPT !.failure = "empty_segment"]
    ELSE [st EXCEPT !.segments = Append(@, st.segment), !.segment = <<>>]

\* ScanChar with the escape honoured only outside backticks
MutScanChar_NoEscapeInQuotes(st, c) ==
    IF st.escaped_character /\ ~st.inside_backticks
    THEN [st EXCEPT !.escaped_character = FALSE, !.segment = Append(@, c)]
    ELSE CASE c = Dot ->
                IF ~st.inside_backticks
                THEN finish_segment(st)
                ELSE [st EXCEPT !.segment = Append(@, c)]
           [] c = Backtick ->
                [st EXCEPT !.inside_backticks = ~@]
           [] c = Backslash ->
                [st EXCEPT !.escaped_character = TRUE]
           [] OTHER ->
                [st EXCEPT !.segment = Append(@, c)]

\* the loop body for a character that is not NUL
ScanChar(st, c) ==
    IF st.escaped_character
    THEN [st EXCEPT !.escaped_character = FALSE, !.segment = Append(@, c)]
    ELSE CASE c = Dot ->
                IF ~st.inside_backticks
                THEN finish_segment(st)
                ELSE [st EXCEPT !.segment = Append(@, c)]
           [] c = Backtick ->
                [st EXCEPT !.inside_backticks = ~@]
           [] c = Backslash ->
                [st EXCEPT !.escaped_character = TRUE]
           [] OTHER ->
                [st EXCEPT !.segment = Append(@, c)]

\* ScanStops with the NUL test placed after the escape handling
MutScanStops_AfterEscape(st, c) == c = Nul /\ ~st.escaped_character

\* the loop head: a NUL ends the scan, whatever the scanner's state
ScanStops(st, c) == c = Nul

\* PostScan with the two assertions placed before finish_segment()
MutPostScan_AssertsFirst(st) ==
    IF st.inside_backticks THEN [st EXCEPT !.failure = "unterminated_backtick"]
    ELSE IF st.escaped_character THEN [st EXCEPT !.failure = "trailing_escape"]
    ELSE finish_segment(st)

\* after the loop: finish_segment(), then the two assertions, in this order
PostScan(st) ==
    LET s1 == finish_segment(st) IN
    IF s1.failure # "none" THEN s1
    ELSE IF s1.inside_backticks THEN [s1 EXCEPT !.failure = "unterminated_backtick"]
    ELSE IF s1.escaped_character THEN [s1 EXCEPT !.failure = "trailing_escape"]
    ELSE s1

RECURSIVE ScanFrom(_, _, _)
ScanFrom(st, path, i) ==
    IF i > Len(path) \/ ScanStops(st, path[i])
    THEN PostScan(st)
    ELSE LET s == ScanChar(st, path[i]) IN
         IF s.failure # "none" THEN s ELSE ScanFrom(s, path, i + 1)

\* the whole function: the kind of failure or the FieldPath
ParseServerFormat(path) ==
    Outcome(ScanFrom(ScanInit, path, 1))

\* ---- the same function, one loop iteration per step
ParseIdle ==
    /\ input = <<>> /\ pos = 0 /\ sc = ScanInit /\ ppc = "idle" /\ result = Pending

CallParse ==
    /\ ppc = "idle"
    /\ \E text \in SeqsUpTo(ParseChars, MaxLen) : input' = text
    /\ pos' = 1
    /\ ppc' = "scan"
    /\ UNCHANGED <<sc, result, pathVars, keyVars, emptyVars, threadVars>>

\* return: post-scan checks, then the FieldPath (or the process is gone)
Return ==
    /\ sc' = PostScan(sc)
    /\ IF sc'.failure # "none"
       THEN ppc' = "fatal"
       ELSE ppc' = "done"
    /\ result' = Outcome(sc')
    /\ UNCHANGED <<input, pos, pathVars, keyVars, emptyVars, threadVars>>

\* one iteration on a character that is not NUL
ScanNext ==
    /\ ppc = "scan"
    /\ pos <= Len(input)
    /\ ~ScanStops(sc, input[pos])
    /\ sc' = ScanChar(sc, input[pos])
    /\ IF sc'.failure # "none"
       THEN ppc' = "fatal" /\ pos' = pos /\ result' = Outcome(sc')
       ELSE ppc' = "scan" /\ pos' = pos + 1 /\ result' = result
    /\ UNCHANGED <<input, pathVars, keyVars, emptyVars, threadVars>>

\* the iteration that meets a NUL: break, then the code after the loop
ScanBreak ==
    /\ ppc = "scan"
    /\ pos <= Len(input)
    /\ ScanStops(sc, input[pos])
    /\ Return

\* the loop runs off the end of the text: the code after the loop
ScanEnd ==
    /\ ppc = "scan"
    /\ pos > Len(input)
    /\ Return

ParseNext == CallParse \/ ScanNext \/ ScanBreak \/ ScanEnd

(***************************************************************************)
(* EscapedSegment, CanonicalString, KeyFieldPath, IsKeyFieldPath           *)
(***************************************************************************)
kDocumentKeyPath == <<"_", "_", "n", "a", "m", "e", "_", "_">>

\* IsValidIdentifier without the test of the first character
MutIsValidIdentifier_NoFront(segment, ub) ==
    IF segment = <<>> THEN FALSE
    ELSE IF \E i \in 1..Len(segment) :
                segment[i] # Underscore /\ ~isalnum(segment[i]) THEN FALSE
    ELSE TRUE

IsValidIdentifier(segment, ub) ==
    IF segment = <<>> THEN FALSE
    ELSE IF segment[1] # Underscore /\ ~isalpha_char(segment[1], ub) THEN FALSE
    ELSE IF \E i \in 1..Len(segment) :
                segment[i] # Underscore /\ ~isalnum(segment[i]) THEN FALSE
    ELSE TRUE

\* absl::StrReplaceAll with one-character patterns: one pass over the original
\* text, the replacement text is never scanned again
RECURSIVE StrReplaceAll(_, _)
StrReplaceAll(s, replacements) ==
    IF s = <<>> THEN <<>>
    ELSE LET hit == {k \in 1..Len(replacements) : replacements[k][1] = Head(s)}
             out == IF hit = {} THEN <<Head(s)>>
                    ELSE replacements[CHOOSE k \in hit : \A j \in hit : k <= j][2]
         IN  out \o StrReplaceAll(Tail(s), replacements)

\* EscapeSpecials as two passes: backticks first, then every backslash
MutEscapeSpecials_TwoPasses(segment) ==
    StrReplaceAll(StrReplaceAll(segment, << <<Backtick, <<Backslash, Backtick>> >> >>),
                  << <<Backslash, <<Backslash, Backslash>> >> >>)

\* the local `escaped` of EscapedSegment, before any wrapping
EscapeSpecials(segment) ==
    StrReplaceAll(segment, << <<Backslash, <<Backslash, Backslash>> >>,
                              <<Backtick,  <<Backslash, Backtick>> >> >>)

\* EscapedSegment that quotes the segment as it is, without escaping
MutEscapedSegment_Raw(segment, ub) ==
    IF ~IsValidIdentifier(segment, ub)
    THEN <<Backtick>> \o segment \o <<Backtick>> ELSE segment

EscapedSegment(segment, ub) ==
    LET escaped == EscapeSpecials(segment)
        needs_escaping == ~IsValidIdentifier(escaped, ub)
    IN  IF needs_escaping THEN <<Backtick>> \o escaped \o <<Backtick>> ELSE escaped

RECURSIVE StrJoin(_, _)
StrJoin(parts, sep) ==
    IF parts = <<>> THEN <<>>
    ELSE IF Len(parts) = 1 THEN parts[1]
    ELSE parts[1] \o sep \o StrJoin(Tail(parts), sep)

CanonicalString(path, ub) ==
    StrJoin([i \in 1..Len(path) |-> EscapedSegment(path[i], ub)], <<Dot>>)

KeyFieldPath == <<kDocumentKeyPath>>

\* IsKeyFieldPath without the size test
MutIsKeyFieldPath_FrontOnly(path) == Len(path) >= 1 /\ path[1] = kDocumentKeyPath

IsKeyFieldPath(path) == Len(path) = 1 /\ path[1] = kDocumentKeyPath

\* ---- the FieldPath values examined
SegChars == {"a", "1", Underscore, Dot, Backtick, Backslash, HiByte, Nul}

\* the paths of weight at most w: a first segment s, then a path of weight at most
\* w - 1 - Len(s)
PathsUpTo[w \in 0..MaxWeight] ==
    IF w = 0 THEN {<<>>}
    ELSE {<<>>} \cup
         UNION {{<<s>> \o p : p \in PathsUpTo[w - 1 - Len(s)]} :
                s \in SeqsUpTo(SegChars, w - 1)}

\* paths around the reserved name, too long for the weight bound
SentinelPaths ==
    {<<kDocumentKeyPath, <<"a">> >>, << <<"a">>, kDocumentKeyPath>>,
     <<kDocumentKeyPath, kDocumentKeyPath>>,
     <<Tail(kDocumentKeyPath)>>, <<Append(kDocumentKeyPath, "_")>>}


PathStart ==
    /\ fp = <<>> /\ madeBy = "none" /\ fpc = "start" /\ canon = <<>> /\ esc = <<>>
    /\ reparsed = Pending /\ isKey = <<>>

\* FieldPath{segments}
Construct ==
    /\ fpc = "start"
    /\ \E p \in PathsUpTo[MaxWeight] \cup SentinelPaths : fp' = p
    /\ madeBy' = "segments"
    /\ fpc' = "built"
    /\ UNCHANGED <<canon, esc, reparsed, isKey, parseVars, keyVars, emptyVars, threadVars>>

CallKeyFieldPath ==
    /\ fpc = "start"
    /\ fp' = KeyFieldPath
    /\ madeBy' = "KeyFieldPath"
    /\ fpc' = "built"
    /\ UNCHANGED <<canon, esc, reparsed, isKey, parseVars, keyVars, emptyVars, threadVars>>

CallIsKeyFieldPath ==
    /\ fpc = "built"
    /\ isKey' = <<IsKeyFieldPath(fp)>>
    /\ fpc' = "keyed"
    /\ UNCHANGED <<fp, madeBy, canon, esc, reparsed, parseVars, keyVars, emptyVars, threadVars>>

CallCanonicalString ==
    /\ fpc \in {"built", "keyed"}
    /\ \E ub \in BOOLEAN : canon' = CanonicalString(fp, ub)
    /\ esc' = [i \in 1..Len(fp) |-> EscapeSpecials(fp[i])]
    /\ fpc' = "canon"
    /\ UNCHANGED <<fp, madeBy, reparsed, isKey, parseVars, keyVars, emptyVars, threadVars>>

\* ParseServerFormat(fp.CanonicalString())
Reparse ==
    /\ fpc = "canon"
    /\ reparsed' = ParseServerFormat(canon)
    /\ fpc' = "parsed"
    /\ UNCHANGED <<fp, madeBy, canon, esc, isKey, parseVars, keyVars, emptyVars, threadVars>>

PathNext ==
    Construct \/ CallKeyFieldPath \/ CallIsKeyFieldPath \/ CallCanonicalString \/ Reparse

(***************************************************************************)
(* ResourcePath: the generic path container.  Ordering is lexicographic by *)
(* segment, segments compared byte-wise.                                   *)
(***************************************************************************)
PathSegs == {"1", "2", "a", "b"}

ByteOf(seg) ==
    CASE seg = "1" -> 49 [] seg = "2" -> 50 [] seg = "a" -> 97 [] seg = "b" -> 98

RECURSIVE PathLess(_, _)
PathLess(p, q) ==
    IF q = <<>> THEN FALSE
    ELSE IF p = <<>> THEN TRUE
    ELSE IF ByteOf(Head(p)) < ByteOf(Head(q)) THEN TRUE
    ELSE IF ByteOf(Head(q)) < ByteOf(Head(p)) THEN FALSE
    ELSE PathLess(Tail(p), Tail(q))

PathEq(p, q) == p = q
PathLe(p, q) == ~PathLess(q, p)

MaxPathLen == 2   \* longest ResourcePath handed to a constructor
MaxKeys    == 2   \* DocumentKey objects alive at once
NThreads   == 3   \* threads calling DocumentKey::Empty()
MaxCalls   == 2   \* Empty() calls per thread

InputPaths == SeqsUpTo(PathSegs, MaxPathLen)

(***************************************************************************)
(* DocumentKey                                                             *)
(***************************************************************************)
Null == [ptr |-> "null"]          \* an unset shared_ptr
make_shared(p) == [ptr |-> "set", target |-> p]
Unconstructed == [constructed |-> FALSE]  \* storage of a static not yet constructed
Diverges == <<"path() never returns">>

\* DocumentKey::DocumentKey()
DefaultKey == [path_ |-> make_shared(<<>>)]

IsDocumentKey(path) == Len(path) % 2 = 0

\* AssertValidPath compiled to nothing
MutAssertValidPath_Off(path) == TRUE

\* TRUE: the assertion passes; FALSE: the process halts
AssertValidPath(path) == IsDocumentKey(path)

\* DocumentKey(const ResourcePath&) and DocumentKey(ResourcePath&&): path_ is set first
KeyOfPath(path) == [path_ |-> make_shared(path)]

\* DocumentKey::Empty() seen from one thread: the static, constructed on first use
EmptyOf(storage) == IF storage = Unconstructed THEN DefaultKey ELSE storage

\* DocumentKey::path(); e is what Empty() returns
path(k, e) ==
    IF k.path_ # Null THEN k.path_.target
    ELSE IF e.path_ # Null THEN e.path_.target ELSE Diverges

KeyEq(lhs, rhs, e) == PathEq(path(lhs, e), path(rhs, e))
KeyNe(lhs, rhs, e) == ~PathEq(path(lhs, e), path(rhs, e))
\* operator< written with <=
MutKeyLt_UsesLe(lhs, rhs, e) == PathLe(path(lhs, e), path(rhs, e))
KeyLt(lhs, rhs, e) == PathLess(path(lhs, e), path(rhs, e))
KeyLe(lhs, rhs, e) == PathLe(path(lhs, e), path(rhs, e))
KeyGt(lhs, rhs, e) == PathLess(path(rhs, e), path(lhs, e))
KeyGe(lhs, rhs, e) == PathLe(path(rhs, e), path(lhs, e))

NoOp == [op |-> "none"]

KeyStart == keys = {} /\ halted = FALSE /\ lastOp = NoOp

EmptyStart == empty = Unconstructed /\ guard = "uninit" /\ initCount = 0

\* a constructor taking a path: make_shared, then AssertValidPath
ConstructFrom(kind, p) ==
    /\ ~halted
    /\ AssertValidPath(KeyOfPath(p).path_.target) => Cardinality(keys) < MaxKeys
    /\ IF AssertValidPath(KeyOfPath(p).path_.target)
       THEN /\ keys' = keys \cup {KeyOfPath(p)}
            /\ halted' = FALSE
            /\ lastOp' = [op |-> kind, size |-> Len(p), ok |-> TRUE, made |-> 1]
       ELSE /\ keys' = keys
            /\ halted' = TRUE
            /\ lastOp' = [op |-> kind, size |-> Len(p), ok |-> FALSE, made |-> 0]
    /\ UNCHANGED <<emptyVars, parseVars, pathVars, threadVars>>

ConstructDefault ==
    /\ ~halted
    /\ Cardinality(keys) < MaxKeys
    /\ keys' = keys \cup {DefaultKey}
    /\ lastOp' = [op |-> "default", size |-> 0, ok |-> TRUE, made |-> 1]
    /\ UNCHANGED <<halted, emptyVars, parseVars, pathVars, threadVars>>

ConstructCopy == \E p \in InputPaths : ConstructFrom("copy", p)
ConstructMove == \E p \in InputPaths : ConstructFrom("move", p)
\* the argument is the path ResourcePath::FromString made of the text
FromPathString == \E p \in InputPaths : ConstructFrom("FromPathString", p)
FromSegments == \E p \in InputPaths : ConstructFrom("FromSegments", p)

CallIsDocumentKey ==
    /\ ~halted
    /\ \E p \in InputPaths :
          lastOp' = [op |-> "IsDocumentKey", size |-> Len(p), ok |-> IsDocumentKey(p), made |-> 0]
    /\ UNCHANGED <<keys, halted, emptyVars, parseVars, pathVars, threadVars>>

\* DocumentKey(DocumentKey&&): the new key takes the storage, the source is left unset
MoveKey ==
    /\ ~halted
    /\ Cardinality(keys) < MaxKeys
    /\ \E k \in keys :
          /\ k.path_ # Null
          /\ keys' = (keys \ {k}) \cup {[path_ |-> Null], [path_ |-> k.path_]}
    /\ lastOp' = [op |-> "moved", size |-> 0, ok |-> TRUE, made |-> 1]
    /\ UNCHANGED <<halted, emptyVars, parseVars, pathVars, threadVars>>

EmptyCall == [call |-> "Empty()"]

\* the six operators on two operands, each a live key or the call Empty()
Compare ==
    /\ ~halted
    /\ \E a \in keys \cup {EmptyCall}, b \in keys \cup {EmptyCall} :
          LET e == EmptyOf(empty)
              l == IF a = EmptyCall THEN e ELSE a
              r == IF b = EmptyCall THEN e ELSE b
              uses == a = EmptyCall \/ b = EmptyCall \/ l.path_ = Null \/ r.path_ = Null
          IN  /\ lastOp' = [op |-> "compare",
                            eq |-> KeyEq(l, r, e), ne |-> KeyNe(l, r, e),
                            lt |-> KeyLt(l, r, e), le |-> KeyLe(l, r, e),
                            gt |-> KeyGt(l, r, e), ge |-> KeyGe(l, r, e)]
              /\ IF uses /\ empty = Unconstructed
                 THEN empty' = e /\ guard' = "done" /\ initCount' = initCount + 1
                 ELSE UNCHANGED emptyVars
    /\ UNCHANGED <<keys, halted, parseVars, pathVars, threadVars>>

KeyNext ==
    \/ ConstructDefault \/ ConstructCopy \/ ConstructMove
    \/ FromPathString \/ FromSegments \/ CallIsDocumentKey \/ MoveKey \/ Compare

(***************************************************************************)
(* DocumentKey::Empty() under threads: `static DocumentKey empty` is       *)
(* initialised under the guard the language keeps for a local static.      *)
(***************************************************************************)
Threads == 1..NThreads
NoRef == [ref |-> "none"]

ThreadStart ==
    /\ tpc = [t \in Threads |-> "idle"]
    /\ ret = [t \in Threads |-> NoRef]
    /\ calls = [t \in Threads |-> 0]

\* a static without a guard: a thread initialises whenever it finds no finished object
MutMayInitialize_NoGuard(g) == g \in {"uninit", "running"}
\* whether a thread arriving at the declaration runs the initialiser
MayInitialize(g) == g = "uninit"
\* whether a thread arriving at the declaration passes without waiting
MayPass(g) == g = "done"

CallEmpty(t) ==
    /\ tpc[t] = "idle"
    /\ calls[t] < MaxCalls
    /\ tpc' = [tpc EXCEPT ![t] = "enter"]
    /\ calls' = [calls EXCEPT ![t] = @ + 1]
    /\ UNCHANGED <<ret, emptyVars, keyVars, parseVars, pathVars>>

\* arrive at the declaration: take the guard, or pass it (a thread that finds the
\* initialisation running waits: no step)
EnterStatic(t) ==
    /\ tpc[t] = "enter"
    /\ \/ /\ MayInitialize(guard)
          /\ guard' = "running"
          /\ tpc' = [tpc EXCEPT ![t] = "ctor"]
       \/ /\ ~MayInitialize(guard)
          /\ MayPass(guard)
          /\ guard' = guard
          /\ tpc' = [tpc EXCEPT ![t] = "ret"]
    /\ UNCHANGED <<empty, initCount, ret, calls, keyVars, parseVars, pathVars>>

\* run DocumentKey() on the static's storage and release the guard
InitStatic(t) ==
    /\ tpc[t] = "ctor"
    /\ empty' = DefaultKey
    /\ initCount' = initCount + 1
    /\ guard' = "done"
    /\ tpc' = [tpc EXCEPT ![t] = "ret"]
    /\ UNCHANGED <<ret, calls, keyVars, parseVars, pathVars>>

\* return empty: the caller holds a reference to the static and sees its contents
ReturnEmpty(t) ==
    /\ tpc[t] = "ret"
    /\ ret' = [ret EXCEPT ![t] = [ref |-> "empty", sees |-> empty]]
    /\ tpc' = [tpc EXCEPT ![t] = "idle"]
    /\ UNCHANGED <<calls, emptyVars, keyVars, parseVars, pathVars>>

EmptyNext ==
    \E t \in Threads : CallEmpty(t) \/ EnterStatic(t) \/ InitStatic(t) \/ ReturnEmpty(t)

(***************************************************************************)
(* Specifications                                                          *)
(***************************************************************************)
Init == ParseIdle /\ PathStart /\ KeyStart /\ EmptyStart /\ ThreadStart

SpecParse == Init /\ [][ParseNext]_vars
SpecPath  == Init /\ [][PathNext]_vars
SpecKey   == Init /\ [][KeyNext]_vars
SpecEmpty == Init /\ [][EmptyNext]_vars
\* everything at once
Next == ParseNext \/ PathNext \/ KeyNext \/ EmptyNext
Spec == Init /\ [][Next]_vars

(***************************************************************************)
(* Properties of ParseServerFormat (checked under SpecParse)               *)
(***************************************************************************)
Terminal == ppc \in {"done", "fatal"}
HasNul(text) == \E i \in 1..Len(text) : text[i] = Nul
FirstNul(text) == CHOOSE i \in 1..Len(text) : text[i] = Nul /\ \A j \in 1..(i - 1) : text[j] # Nul
BeforeFirstNul(text) == IF HasNul(text) THEN SubSeq(text, 1, FirstNul(text) - 1) ELSE text
\* the scan is over: the loop ran off the text or stands on a NUL
AtEnd == pos > Len(input) \/ input[pos] = Nul
FailsWith(text, kind) == (Terminal /\ input = text) => (ppc = "fatal" /\ result.failure = kind)
ParsesTo(text, segs) == (Terminal /\ input = text) => (ppc = "done" /\ result.segments = segs)

\* C3: ParseServerFormat fails, returning no FieldPath, exactly when (a) a segment
\* closed at an unquoted, unescaped '.' or at the end of the scan is empty, (b) the
\* scan ends inside backticks, or (c) it ends with an escape pending; otherwise it
\* returns a FieldPath with at least one segment and no empty one.  The final
\* segment's emptiness is checked before the backtick and the escape.
C3_FailureExact ==
    /\ ppc = "fatal" =>
          /\ result.failure \in {"empty_segment", "unterminated_backtick", "trailing_escape"}
          /\ result.segments = <<>>
          /\ result.failure = "empty_segment" =>
                /\ sc.segment = <<>>
                /\ \/ AtEnd
                   \/ input[pos] = Dot /\ ~sc.inside_backticks /\ ~sc.escaped_character
          /\ result.failure = "unterminated_backtick" =>
                /\ AtEnd /\ sc.inside_backticks
                /\ sc.segments # <<>> /\ sc.segments[Len(sc.segments)] # <<>>
          /\ result.failure = "trailing_escape" =>
                /\ AtEnd /\ sc.escaped_character /\ ~sc.inside_backticks
                /\ sc.segments # <<>> /\ sc.segments[Len(sc.segments)] # <<>>
    /\ ppc = "done" =>
          /\ result.failure = "none"
          /\ result.segments = sc.segments
          /\ Len(result.segments) >= 1
          /\ \A i \in 1..Len(result.segments) : result.segments[i] # <<>>
          /\ AtEnd /\ ~sc.inside_backticks /\ ~sc.escaped_character
    /\ ~Terminal => result = Pending
    /\ FailsWith(<<>>, "empty_segment")
    /\ FailsWith(<<Dot, "a">>, "empty_segment")
    /\ FailsWith(<<"a", Dot>>, "empty_segment")
    /\ FailsWith(<<"a", Dot, Dot, "b">>, "empty_segment")
    /\ FailsWith(<<Backtick, Backtick>>, "empty_segment")
    /\ FailsWith(<<Backtick>>, "empty_segment")
    /\ FailsWith(<<Backslash>>, "empty_segment")
    /\ FailsWith(<<Backtick, "a">>, "unterminated_backtick")
    /\ FailsWith(<<"a", Backslash>>, "trailing_escape")

C3_Witness ==
    ppc = "fatal" /\ input = <<Backtick>> /\ result.failure = "empty_segment"
        /\ sc.inside_backticks

\* C4: a text with a NUL has the outcome of its prefix before the first NUL; the NUL
\* test comes before the escape, so a backslash right before the NUL is a dangling
\* trailing escape and not an escaped NUL.
C4_NulTruncates ==
    (Terminal /\ HasNul(input)) =>
        /\ result = ParseServerFormat(BeforeFirstNul(input))
        /\ pos <= FirstNul(input)
        /\ FailsWith(<<"a", Backslash, Nul>>, "trailing_escape")
        /\ FailsWith(<<"a", Backslash, Nul, "b">>, "trailing_escape")
        /\ ParsesTo(<<"a", Nul, Dot, Dot>>, << <<"a">> >>)

C4_Witness ==
    /\ ppc = "fatal" /\ input = <<"a", Backslash, Nul, "b">>
    /\ result.failure = "trailing_escape" /\ pos = 3

\* C9: one scanner step on a character that is not NUL.
ScanStepRule ==
    (ppc = "scan" /\ pos <= Len(input) /\ input[pos] # Nul) =>
        LET c == input[pos]
            appended == /\ sc'.segment = Append(sc.segment, c)
                        /\ sc'.segments = sc.segments
                        /\ sc'.inside_backticks = sc.inside_backticks
                        /\ ppc' = "scan"
        IN  IF sc.escaped_character
            THEN appended /\ ~sc'.escaped_character
            ELSE /\ (c = Dot /\ ~sc.inside_backticks) =>
                        /\ sc.segment # <<>> =>
                              /\ sc'.segments = Append(sc.segments, sc.segment)
                              /\ sc'.segment = <<>>
                              /\ ppc' = "scan"
                        /\ sc.segment = <<>> => ppc' = "fatal"
                        /\ sc'.inside_backticks = sc.inside_backticks
                        /\ ~sc'.escaped_character
                 /\ (c = Dot /\ sc.inside_backticks) => (appended /\ ~sc'.escaped_character)
                 /\ c = Backtick =>
                        /\ sc'.inside_backticks = ~sc.inside_backticks
                        /\ sc'.segment = sc.segment /\ sc'.segments = sc.segments
                        /\ ~sc'.escaped_character /\ ppc' = "scan"
                 /\ c = Backslash =>
                        /\ sc'.escaped_character
                        /\ sc'.segment = sc.segment /\ sc'.segments = sc.segments
                        /\ sc'.inside_backticks = sc.inside_backticks /\ ppc' = "scan"
                 /\ c \notin {Dot, Backtick, Backslash} => (appended /\ ~sc'.escaped_character)

ScanExamples ==
    /\ ParsesTo(<<"a", Dot, "b">>, << <<"a">>, <<"b">> >>)
    /\ ParsesTo(<<Backtick, "a", Dot, "b", Backtick>>, << <<"a", Dot, "b">> >>)
    /\ ParsesTo(<<"a", Backslash, Dot, "b">>, << <<"a", Dot, "b">> >>)
    /\ ParsesTo(<<Backslash, Backtick, "a">>, << <<Backtick, "a">> >>)
    /\ ParsesTo(<<Backslash, Backslash, "a">>, << <<Backslash, "a">> >>)
    /\ ParsesTo(<<Backtick, Backslash, Backtick, Backtick>>, << <<Backtick>> >>)

\* C9: an escaped character is appended literally in any context and clears the
\* escape; an unescaped '.' closes the segment iff outside backticks; an unescaped
\* backtick only toggles the quoting; an unescaped backslash only sets the escape.
C9_ScannerTransitions == [][ScanStepRule]_vars /\ []ScanExamples

C9_Witness ==
    /\ ppc = "done" /\ input = <<Backtick, "a", Backslash, Dot, Backtick>>
    /\ result.segments = << <<"a", Dot>> >>

(***************************************************************************)
(* Properties of FieldPath values (checked under SpecPath)                 *)
(***************************************************************************)
NoEmptySegment(p) == \A i \in 1..Len(p) : p[i] # <<>>
NoNulInside(p) == \A i \in 1..Len(p) : \A j \in 1..Len(p[i]) : p[i][j] # Nul
RoundTrips == reparsed = [failure |-> "none", segments |-> fp]

\* C1 as stated: every FieldPath of non-empty, NUL-free segments round-trips through
\* CanonicalString and ParseServerFormat.
C1_RoundTripAnyPath ==
    (fpc = "parsed" /\ NoEmptySegment(fp) /\ NoNulInside(fp)) => RoundTrips

\* C1 (amended): every FieldPath with at least one segment, all segments non-empty
\* and free of NUL, round-trips: parsing its canonical string succeeds and gives
\* back the same segments in the same order.
C1_RoundTrip ==
    (fpc = "parsed" /\ Len(fp) >= 1 /\ NoEmptySegment(fp) /\ NoNulInside(fp)) => RoundTrips

C1_Witness ==
    /\ fpc = "parsed" /\ fp = << <<Backtick, Backslash>>, <<Dot>> >>
    /\ canon = <<Backtick, Backslash, Backtick, Backslash, Backslash, Backtick, Dot,
                 Backtick, Dot, Backtick>>
    /\ reparsed.segments = fp

\* the claim's own reading of "identifier"
PlainIdentifier(seg) ==
    /\ seg # <<>>
    /\ seg[1] \in {Underscore} \cup AsciiLetters
    /\ \A i \in 1..Len(seg) : seg[i] \in {Underscore} \cup AsciiLetters \cup AsciiDigits

RECURSIVE JoinedByDots(_)
JoinedByDots(parts) ==
    IF Len(parts) = 0 THEN <<>>
    ELSE IF Len(parts) = 1 THEN parts[1]
    ELSE JoinedByDots(SubSeq(parts, 1, Len(parts) - 1)) \o <<Dot>> \o parts[Len(parts)]

\* C5: a segment is emitted bare iff it is a non-empty identifier; any other segment
\* (the empty one too) is emitted, escaped, between exactly one leading and one
\* trailing backtick; segments are joined by single dots in order; the verdict on
\* the escaped text is the verdict on the original segment.
C5_CanonicalQuoting ==
    fpc \in {"canon", "parsed"} =>
        /\ canon = JoinedByDots([i \in 1..Len(fp) |->
                        IF PlainIdentifier(fp[i]) THEN fp[i]
                        ELSE <<Backtick>> \o esc[i] \o <<Backtick>>])
        /\ \A i \in 1..Len(fp) : \A ub \in BOOLEAN :
              /\ IsValidIdentifier(esc[i], ub) = PlainIdentifier(fp[i])
              /\ IsValidIdentifier(esc[i], ub) = IsValidIdentifier(fp[i], ub)
              /\ EscapedSegment(fp[i], ub) =
                    IF PlainIdentifier(fp[i]) THEN fp[i]
                    ELSE <<Backtick>> \o esc[i] \o <<Backtick>>

C5_Witness ==
    /\ fpc = "canon" /\ fp = << <<Underscore>>, <<"1">>, <<>> >>
    /\ canon = <<Underscore, Dot, Backtick, "1", Backtick, Dot, Backtick, Backtick>>

\* C6: KeyFieldPath() is the one-segment path __name__, and IsKeyFieldPath() is true
\* of a path iff it has exactly one segment and that segment is __name__.
C6_Sentinel ==
    LET name == <<"_", "_", "n", "a", "m", "e", "_", "_">> IN
    /\ madeBy = "KeyFieldPath" => (Len(fp) = 1 /\ fp[1] = name)
    /\ isKey # <<>> => (isKey[1] <=> (Len(fp) = 1 /\ fp[1] = name))
    /\ (madeBy = "KeyFieldPath" /\ isKey # <<>>) => isKey[1]
    /\ (isKey # <<>> /\ Len(fp) # 1) => ~isKey[1]

C6_Witness == madeBy = "KeyFieldPath" /\ isKey = <<TRUE>> /\ fpc = "parsed"

Count(seg, c) == Cardinality({i \in 1..Len(seg) : seg[i] = c})

RECURSIVE EachEscaped(_)
EachEscaped(seg) ==
    IF Len(seg) = 0 THEN <<>>
    ELSE EachEscaped(SubSeq(seg, 1, Len(seg) - 1)) \o
         (IF seg[Len(seg)] \in {Backslash, Backtick}
          THEN <<Backslash, seg[Len(seg)]>> ELSE <<seg[Len(seg)]>>)

\* C10: the escaped text is the original with every backslash doubled and every
\* backtick preceded by one backslash, everything else unchanged and in order; its
\* length is len + #backslashes + #backticks.
C10_SimultaneousEscaping ==
    fpc \in {"canon", "parsed"} =>
        /\ Len(esc) = Len(fp)
        /\ \A i \in 1..Len(fp) :
              /\ esc[i] = EachEscaped(fp[i])
              /\ Len(esc[i]) = Len(fp[i]) + Count(fp[i], Backslash) + Count(fp[i], Backtick)

C10_Witness ==
    /\ fpc = "canon" /\ fp = << <<"a", Backtick, Backslash>> >>
    /\ esc = << <<"a", Backslash, Backtick, Backslash, Backslash>> >>

(***************************************************************************)
(* Properties of DocumentKey (checked under SpecKey)                       *)
(***************************************************************************)
PathCtors == {"copy", "move", "FromPathString", "FromSegments"}
Even(n) == n % 2 = 0

C2_State ==
    /\ ~halted => \A k \in keys : Even(Len(path(k, EmptyOf(empty))))
    /\ lastOp.op \in PathCtors =>
          /\ lastOp.ok <=> Even(lastOp.size)
          /\ halted <=> ~lastOp.ok
    /\ halted => lastOp.op \in PathCtors
    /\ lastOp.op = "default" => (~halted /\ DefaultKey \in keys /\ Len(path(DefaultKey, DefaultKey)) = 0)
    /\ lastOp.op = "IsDocumentKey" => (lastOp.ok <=> Even(lastOp.size))

C2_Step ==
    /\ halted' => keys' = keys
    /\ (lastOp'.op \in PathCtors /\ lastOp' # lastOp /\ ~halted') =>
          \E k \in keys' : k.path_ # Null /\ Len(k.path_.target) = lastOp'.size

\* C2: a constructor taking a path succeeds iff the path has an even number of
\* segments and halts, producing no key, when it is odd; every key that exists has
\* an even segment count; IsDocumentKey is true exactly of even counts.
C2_KeyValidity == []C2_State /\ [][C2_Step]_vars

C2_Witness ==
    /\ halted /\ lastOp.op = "FromPathString" /\ lastOp.size = 1
    /\ keys = {KeyOfPath(<<"a", "1">>), DefaultKey}

\* the claim's own reading of path(): the key's path, or no segments when unset
OwnPath(k) == IF k.path_.ptr = "set" THEN k.path_.target ELSE <<>>

\* C8: path() is the key's own path when its storage is set and the empty key's
\* zero-segment path otherwise, and it always returns; the six operators are those
\* of the paths, so keys are strictly totally ordered, an unset key being equal to
\* Empty() and to a default-constructed key.
C8_Ordering ==
    LET e == EmptyOf(empty)
        K == keys \cup {e, DefaultKey}
    IN  /\ empty # Unconstructed => (empty.path_ # Null /\ empty.path_.target = <<>>)
        /\ \A k \in K : path(k, e) # Diverges /\ path(k, e) = OwnPath(k)
        /\ \A a \in K, b \in K :
              /\ KeyEq(a, b, e) <=> PathEq(OwnPath(a), OwnPath(b))
              /\ KeyNe(a, b, e) <=> ~PathEq(OwnPath(a), OwnPath(b))
              /\ KeyLt(a, b, e) <=> PathLess(OwnPath(a), OwnPath(b))
              /\ KeyLe(a, b, e) <=> PathLe(OwnPath(a), OwnPath(b))
              /\ KeyGt(a, b, e) <=> PathLess(OwnPath(b), OwnPath(a))
              /\ KeyGe(a, b, e) <=> PathLe(OwnPath(b), OwnPath(a))
              /\ Cardinality({x \in {"lt", "eq", "gt"} :
                                \/ x = "lt" /\ KeyLt(a, b, e)
                                \/ x = "eq" /\ KeyEq(a, b, e)
                                \/ x = "gt" /\ KeyGt(a, b, e)}) = 1
              /\ KeyLe(a, b, e) <=> (KeyLt(a, b, e) \/ KeyEq(a, b, e))
              /\ KeyGe(a, b, e) <=> (KeyGt(a, b, e) \/ KeyEq(a, b, e))
              /\ KeyNe(a, b, e) <=> ~KeyEq(a, b, e)
              /\ a.path_ = Null => (KeyEq(a, e, e) /\ KeyEq(a, DefaultKey, e))
              /\ (OwnPath(a) = <<"a", "1">> /\ OwnPath(b) = <<"a", "2">>) => KeyLt(a, b, e)
              /\ (OwnPath(a) = <<"a", "2">> /\ OwnPath(b) = <<"b", "1">>) => KeyLt(a, b, e)
              /\ (OwnPath(a) = <<"a", "1">> /\ OwnPath(b) = <<"b", "1">>) => KeyLt(a, b, e)
        /\ \A a \in K, b \in K, c \in K :
              (KeyLt(a, b, e) /\ KeyLt(b, c, e)) => KeyLt(a, c, e)
        /\ lastOp.op = "compare" =>
              /\ Cardinality({x \in {"lt", "eq", "gt"} :
                                \/ x = "lt" /\ lastOp.lt
                                \/ x = "eq" /\ lastOp.eq
                                \/ x = "gt" /\ lastOp.gt}) = 1
              /\ lastOp.le <=> (lastOp.lt \/ lastOp.eq)
              /\ lastOp.ge <=> (lastOp.gt \/ lastOp.eq)
              /\ lastOp.ne <=> ~lastOp.eq
              /\ (keys = {[path_ |-> Null]}) => (lastOp.eq /\ empty = DefaultKey)

C8_Witness ==
    /\ keys = {[path_ |-> Null], KeyOfPath(<<"a", "1">>)}
    /\ lastOp.op = "compare" /\ lastOp.lt /\ lastOp.le /\ ~lastOp.ge
    /\ empty = DefaultKey /\ initCount = 1

(***************************************************************************)
(* Properties of DocumentKey::Empty() under threads (checked under         *)
(* SpecEmpty)                                                              *)
(***************************************************************************)
C7_State ==
    /\ initCount <= 1
    /\ (initCount = 1) <=> (empty # Unconstructed)
    /\ empty # Unconstructed => (empty = DefaultKey /\ OwnPath(empty) = <<>>)
    /\ \A t \in Threads :
          /\ tpc[t] = "ret" => empty # Unconstructed
          /\ ret[t] # NoRef => (ret[t].ref = "empty" /\ ret[t].sees = DefaultKey)
    /\ \A t \in Threads, u \in Threads :
          (ret[t] # NoRef /\ ret[u] # NoRef) => ret[t] = ret[u]

C7_Step ==
    /\ empty # Unconstructed => empty' = empty
    /\ initCount' >= initCount

====
